---------------------------- MODULE Spec2Model ----------------------------
(***************************************************************************)
(* Command-line resolution and dispatch of whitebox_tools: fn run() of     *)
(* src/src/main.rs, from env::args() (line 132) to its return (line 311).  *)
(*                                                                         *)
(* A Rust String is modelled as the sequence of its characters, each a     *)
(* one-character TLA+ string, so that starts_with, contains, replace,      *)
(* to_lowercase and trim are computed as the standard library computes     *)
(* them.  The clap App built at lines 103-129 only yields `_matches`,      *)
(* which run() never reads; clap's own parsing belongs to a library        *)
(* outside src/ and the model starts after it.  ToolManager is outside     *)
(* src/ too: its constructor and operations are recorded as calls and      *)
(* their success or failure is a nondeterministic input.                   *)
(***************************************************************************)
EXTENDS Integers, Sequences, FiniteSets, TLC

\* Longest argument list after argv[0] that Init enumerates.
MaxArgs == 2

(***************************************************************************)
(* String operations of the Rust standard library used by run().           *)
(***************************************************************************)
starts_with(s, p) == Len(s) >= Len(p) /\ SubSeq(s, 1, Len(p)) = p

ends_with(s, p) == Len(s) >= Len(p) /\ SubSeq(s, Len(s) - Len(p) + 1, Len(s)) = p

contains(s, p) == \E k \in 1..(Len(s) - Len(p) + 1) : SubSeq(s, k, k + Len(p) - 1) = p

\* str::replace: every non-overlapping match of `from`, left to right.
RECURSIVE replace(_, _, _)
replace(s, from, to) ==
    IF s = <<>> THEN <<>>
    ELSE IF starts_with(s, from)
         THEN to \o replace(SubSeq(s, Len(from) + 1, Len(s)), from, to)
         ELSE <<Head(s)>> \o replace(Tail(s), from, to)

UpperChars == <<"A", "B", "C", "D", "E", "F", "G", "H", "I", "J", "K", "L", "M", "N", "O", "P", "Q", "R", "S", "T", "U", "V", "W", "X", "Y", "Z">>

LowerChars == <<"a", "b", "c", "d", "e", "f", "g", "h", "i", "j", "k", "l", "m", "n", "o", "p", "q", "r", "s", "t", "u", "v", "w", "x", "y", "z">>

to_lowercase(s) ==
    [k \in 1..Len(s) |->
        IF \E u \in 1..Len(UpperChars) : UpperChars[u] = s[k]
        THEN LowerChars[CHOOSE u \in 1..Len(UpperChars) : UpperChars[u] = s[k]]
        ELSE s[k]]

WhiteSpace == {" ", "\t", "\n", "\r"}

RECURSIVE trim_start(_)
trim_start(s) ==
    IF s # <<>> /\ Head(s) \in WhiteSpace THEN trim_start(Tail(s)) ELSE s

RECURSIVE trim_end(_)
trim_end(s) ==
    IF s # <<>> /\ s[Len(s)] \in WhiteSpace
    THEN trim_end(SubSeq(s, 1, Len(s) - 1)) ELSE s

trim(s) == trim_end(trim_start(s))

\* The `if v.starts_with("=") { v = v[1..v.len()].to_string(); }` of every
\* value-bearing branch.
strip_eq(v) == IF starts_with(v, <<"=">>) THEN SubSeq(v, 2, Len(v)) ELSE v

\* The `.replace("\"", "").replace("\'", "")` tail of every extraction.
strip_quotes(v) == replace(replace(v, <<"\"">>, <<>>), <<"'">>, <<>>)

(***************************************************************************)
(* Argument tokens.  Each is the character sequence of the text in the     *)
(* comment above it.                                                       *)
(***************************************************************************)
\* whitebox_tools   (argv[0] of the cargo binary)
Prog_whitebox_tools == <<"w", "h", "i", "t", "e", "b", "o", "x", "_", "t", "o", "o", "l", "s">>
\* wbt   (argv[0] of a renamed executable)
Prog_wbt == <<"w", "b", "t">>
\* -h
Tok_h == <<"-", "h">>
\* --HELP
Tok_HELP == <<"-", "-", "H", "E", "L", "P">>
\* --cd=/d
Tok_cd_d == <<"-", "-", "c", "d", "=", "/", "d">>
\* --wd
Tok_wd == <<"-", "-", "w", "d">>
\* -cd="e/"
Tok_cd_quoted == <<"-", "c", "d", "=", "\"", "e", "/", "\"">>
\* --CD=/d
Tok_CD_d == <<"-", "-", "C", "D", "=", "/", "d">>
\* -r=S
Tok_r_S == <<"-", "r", "=", "S">>
\* --run="S"
Tok_run_quoted == <<"-", "-", "r", "u", "n", "=", "\"", "S", "\"">>
\* -r
Tok_r == <<"-", "r">>
\* --run=a-rb
Tok_run_a_rb == <<"-", "-", "r", "u", "n", "=", "a", "-", "r", "b">>
\* -radius=5
Tok_radius == <<"-", "r", "a", "d", "i", "u", "s", "=", "5">>
\* --RUN=S
Tok_RUN_S == <<"-", "-", "R", "U", "N", "=", "S">>
\* --toolhelp=T
Tok_toolhelp_T == <<"-", "-", "t", "o", "o", "l", "h", "e", "l", "p", "=", "T">>
\* --toolparameters=P
Tok_toolparameters_P == <<"-", "-", "t", "o", "o", "l", "p", "a", "r", "a", "m", "e", "t", "e", "r", "s", "=", "P">>
\* --toolbox=B
Tok_toolbox_B == <<"-", "-", "t", "o", "o", "l", "b", "o", "x", "=", "B">>
\* -toolbox=B
Tok_toolbox1_B == <<"-", "t", "o", "o", "l", "b", "o", "x", "=", "B">>
\* --toolbox
Tok_toolbox == <<"-", "-", "t", "o", "o", "l", "b", "o", "x">>
\* --listtools
Tok_listtools == <<"-", "-", "l", "i", "s", "t", "t", "o", "o", "l", "s">>
\* --viewcode=V
Tok_viewcode_V == <<"-", "-", "v", "i", "e", "w", "c", "o", "d", "e", "=", "V">>
\* -l
Tok_l == <<"-", "l">>
\* --license
Tok_license == <<"-", "-", "l", "i", "c", "e", "n", "s", "e">>
\* -licence
Tok_licence1 == <<"-", "l", "i", "c", "e", "n", "c", "e">>
\* -length=3
Tok_length == <<"-", "l", "e", "n", "g", "t", "h", "=", "3">>
\* --version
Tok_version == <<"-", "-", "v", "e", "r", "s", "i", "o", "n">>
\* -v
Tok_v == <<"-", "v">>
\* "-v " (a trailing space)
Tok_v_space == <<"-", "v", " ">>
\* -i=x
Tok_i_x == <<"-", "i", "=", "x">>
\* --p=-17976931348623157
Tok_p_sentinel == <<"-", "-", "p", "=", "-", "1", "7", "9", "7", "6", "9", "3", "1", "3", "4", "8", "6", "2", "3", "1", "5", "7">>
\* k
Tok_k == <<"k">>
\* "q"
Tok_quoted_q == <<"\"", "q", "\"">>
\* x-17976931348623157
Tok_x_sentinel == <<"x", "-", "1", "7", "9", "7", "6", "9", "3", "1", "3", "4", "8", "6", "2", "3", "1", "5", "7">>
\* /whitebox_tools/
Tok_path_whitebox_tools == <<"/", "w", "h", "i", "t", "e", "b", "o", "x", "_", "t", "o", "o", "l", "s", "/">>
\* d//
Tok_d_seps == <<"d", "/", "/">>

ProgNames == {Prog_whitebox_tools, Prog_wbt}

Tokens ==
    { Tok_h, Tok_HELP, Tok_cd_d, Tok_wd, Tok_cd_quoted, Tok_CD_d,
      Tok_r_S, Tok_run_quoted, Tok_r, Tok_run_a_rb, Tok_radius, Tok_RUN_S,
      Tok_toolhelp_T, Tok_toolparameters_P,
      Tok_toolbox_B, Tok_toolbox1_B, Tok_toolbox,
      Tok_listtools, Tok_viewcode_V,
      Tok_l, Tok_license, Tok_licence1, Tok_length, Tok_version, Tok_v, Tok_v_space,
      Tok_i_x, Tok_p_sentinel,
      Tok_k, Tok_quoted_q, Tok_x_sentinel, Tok_path_whitebox_tools, Tok_d_seps }

\* path::MAIN_SEPARATOR: "/" on Unix builds, "\" on Windows builds.
Separators == {<<"/">>, <<"\\">>}

\* The literal of line 243.
Sentinel == <<"-", "1", "7", "9", "7", "6", "9", "3", "1", "3", "4", "8", "6", "2", "3", "1", "5", "7">>

\* Every argument vector env::args() can yield within the bounds: argv[0]
\* followed by at most MaxArgs tokens.
RECURSIVE ArgLists(_)
ArgLists(n) ==
    IF n = 0 THEN {<<>>}
    ELSE LET shorter == ArgLists(n - 1)
         IN  shorter \cup {Append(l, t) : l \in {x \in shorter : Len(x) = n - 1}, t \in Tokens}

ArgVectors == {<<p>> \o l : p \in ProgNames, l \in ArgLists(MaxArgs)}

(***************************************************************************)
(* The if / else-if chain of the scan loop, lines 144-266: the branch a    *)
(* token takes.                                                            *)
(***************************************************************************)
\* flag_val without the to_lowercase() of line 144.
flag_val_case_sensitive(arg) == replace(arg, <<"-", "-">>, <<"-">>)

flag_val(arg) == replace(to_lowercase(arg), <<"-", "-">>, <<"-">>)

\* Branch with the license aliases compared for equality, not as prefixes.
Branch_license_by_equality(arg) ==
    IF flag_val(arg) = <<"-", "h">> \/ flag_val(arg) = <<"-", "h", "e", "l", "p">> THEN "help"
    ELSE IF starts_with(flag_val(arg), <<"-", "c", "d">>) \/ starts_with(flag_val(arg), <<"-", "w", "d">>)
         THEN "working_dir"
    ELSE IF starts_with(arg, <<"-", "r", "u", "n">>) \/ starts_with(arg, <<"-", "-", "r", "u", "n">>) \/ starts_with(arg, <<"-", "r">>)
         THEN "run"
    ELSE IF starts_with(arg, <<"-", "t", "o", "o", "l", "h", "e", "l", "p">>) \/ starts_with(arg, <<"-", "-", "t", "o", "o", "l", "h", "e", "l", "p">>)
         THEN "toolhelp"
    ELSE IF starts_with(arg, <<"-", "t", "o", "o", "l", "p", "a", "r", "a", "m", "e", "t", "e", "r", "s">>) \/ starts_with(arg, <<"-", "-", "t", "o", "o", "l", "p", "a", "r", "a", "m", "e", "t", "e", "r", "s">>)
         THEN "toolparameters"
    ELSE IF starts_with(arg, <<"-", "t", "o", "o", "l", "b", "o", "x">>) \/ starts_with(arg, <<"-", "-", "t", "o", "o", "l", "b", "o", "x">>)
         THEN "toolbox"
    ELSE IF \/ starts_with(arg, <<"-", "l", "i", "s", "t", "t", "o", "o", "l", "s">>)
            \/ starts_with(arg, <<"-", "-", "l", "i", "s", "t", "t", "o", "o", "l", "s">>)
            \/ starts_with(arg, <<"-", "l", "i", "s", "t", "_", "t", "o", "o", "l", "s">>)
            \/ starts_with(arg, <<"-", "-", "l", "i", "s", "t", "_", "t", "o", "o", "l", "s">>)
         THEN "listtools"
    ELSE IF starts_with(arg, <<"-", "v", "i", "e", "w", "c", "o", "d", "e">>) \/ starts_with(arg, <<"-", "-", "v", "i", "e", "w", "c", "o", "d", "e">>)
         THEN "viewcode"
    ELSE IF \/ arg = <<"-", "l", "i", "c", "e", "n", "s", "e">>
            \/ arg = <<"-", "l", "i", "c", "e", "n", "c", "e">>
            \/ arg = <<"-", "-", "l", "i", "c", "e", "n", "s", "e">>
            \/ arg = <<"-", "-", "l", "i", "c", "e", "n", "c", "e">>
            \/ arg = <<"-", "l">>
         THEN "license"
    ELSE IF starts_with(arg, <<"-", "v", "e", "r", "s", "i", "o", "n">>) \/ starts_with(arg, <<"-", "-", "v", "e", "r", "s", "i", "o", "n">>)
         THEN "version"
    ELSE IF trim(arg) = <<"-", "v">> THEN "verbose"
    ELSE IF starts_with(arg, <<"-">>) THEN "tool_arg"
    ELSE IF ~contains(arg, <<"w", "h", "i", "t", "e", "b", "o", "x", "_", "t", "o", "o", "l", "s">>) THEN "keyword"
    ELSE "none"

Branch(arg) ==
    IF flag_val(arg) = <<"-", "h">> \/ flag_val(arg) = <<"-", "h", "e", "l", "p">> THEN "help"
    ELSE IF starts_with(flag_val(arg), <<"-", "c", "d">>) \/ starts_with(flag_val(arg), <<"-", "w", "d">>)
         THEN "working_dir"
    ELSE IF starts_with(arg, <<"-", "r", "u", "n">>) \/ starts_with(arg, <<"-", "-", "r", "u", "n">>) \/ starts_with(arg, <<"-", "r">>)
         THEN "run"
    ELSE IF starts_with(arg, <<"-", "t", "o", "o", "l", "h", "e", "l", "p">>) \/ starts_with(arg, <<"-", "-", "t", "o", "o", "l", "h", "e", "l", "p">>)
         THEN "toolhelp"
    ELSE IF starts_with(arg, <<"-", "t", "o", "o", "l", "p", "a", "r", "a", "m", "e", "t", "e", "r", "s">>) \/ starts_with(arg, <<"-", "-", "t", "o", "o", "l", "p", "a", "r", "a", "m", "e", "t", "e", "r", "s">>)
         THEN "toolparameters"
    ELSE IF starts_with(arg, <<"-", "t", "o", "o", "l", "b", "o", "x">>) \/ starts_with(arg, <<"-", "-", "t", "o", "o", "l", "b", "o", "x">>)
         THEN "toolbox"
    ELSE IF \/ starts_with(arg, <<"-", "l", "i", "s", "t", "t", "o", "o", "l", "s">>)
            \/ starts_with(arg, <<"-", "-", "l", "i", "s", "t", "t", "o", "o", "l", "s">>)
            \/ starts_with(arg, <<"-", "l", "i", "s", "t", "_", "t", "o", "o", "l", "s">>)
            \/ starts_with(arg, <<"-", "-", "l", "i", "s", "t", "_", "t", "o", "o", "l", "s">>)
         THEN "listtools"
    ELSE IF starts_with(arg, <<"-", "v", "i", "e", "w", "c", "o", "d", "e">>) \/ starts_with(arg, <<"-", "-", "v", "i", "e", "w", "c", "o", "d", "e">>)
         THEN "viewcode"
    ELSE IF \/ starts_with(arg, <<"-", "l", "i", "c", "e", "n", "s", "e">>)
            \/ starts_with(arg, <<"-", "l", "i", "c", "e", "n", "c", "e">>)
            \/ starts_with(arg, <<"-", "-", "l", "i", "c", "e", "n", "s", "e">>)
            \/ starts_with(arg, <<"-", "-", "l", "i", "c", "e", "n", "c", "e">>)
            \/ starts_with(arg, <<"-", "l">>)
         THEN "license"
    ELSE IF starts_with(arg, <<"-", "v", "e", "r", "s", "i", "o", "n">>) \/ starts_with(arg, <<"-", "-", "v", "e", "r", "s", "i", "o", "n">>)
         THEN "version"
    ELSE IF trim(arg) = <<"-", "v">> THEN "verbose"
    ELSE IF starts_with(arg, <<"-">>) THEN "tool_arg"
    ELSE IF ~contains(arg, <<"w", "h", "i", "t", "e", "b", "o", "x", "_", "t", "o", "o", "l", "s">>) THEN "keyword"
    ELSE "none"

\* Branch, tabulated once over the tokens the model draws from.
BranchOf == [t \in Tokens \cup ProgNames |-> Branch(t)]

(***************************************************************************)
(* The value each value-bearing branch extracts from its token.            *)
(***************************************************************************)
\* lines 149-158
working_dir_value(arg) ==
    strip_eq(strip_quotes(
        replace(replace(replace(replace(arg, <<"-", "-", "c", "d">>, <<>>), <<"-", "-", "w", "d">>, <<>>),
                        <<"-", "c", "d">>, <<>>), <<"-", "w", "d">>, <<>>)))

\* with_separator pushing no separator.
with_separator_absent(v, s) == v

\* with_separator leaving the empty string empty.
with_separator_unless_empty(v, s) == IF v = <<>> \/ ends_with(v, s) THEN v ELSE v \o s

\* lines 162-164 and 270-272
with_separator(v, s) == IF ends_with(v, s) THEN v ELSE v \o s

\* lines 167-175
run_value(arg) ==
    strip_eq(strip_quotes(
        replace(replace(replace(arg, <<"-", "-", "r", "u", "n">>, <<>>), <<"-", "r", "u", "n">>, <<>>), <<"-", "r">>, <<>>)))

\* lines 179-186
toolhelp_value(arg) ==
    strip_eq(strip_quotes(replace(replace(arg, <<"-", "-", "t", "o", "o", "l", "h", "e", "l", "p">>, <<>>), <<"-", "t", "o", "o", "l", "h", "e", "l", "p">>, <<>>)))

\* lines 190-197
toolparameters_value(arg) ==
    strip_eq(strip_quotes(
        replace(replace(arg, <<"-", "-", "t", "o", "o", "l", "p", "a", "r", "a", "m", "e", "t", "e", "r", "s">>, <<>>), <<"-", "t", "o", "o", "l", "p", "a", "r", "a", "m", "e", "t", "e", "r", "s">>, <<>>)))

\* lines 201-208 (the second replace names "-toolhelp", as the source does)
toolbox_value(arg) ==
    strip_eq(strip_quotes(replace(replace(arg, <<"-", "-", "t", "o", "o", "l", "b", "o", "x">>, <<>>), <<"-", "t", "o", "o", "l", "h", "e", "l", "p">>, <<>>)))

\* lines 218-225
viewcode_value(arg) ==
    strip_eq(strip_quotes(replace(replace(arg, <<"-", "-", "v", "i", "e", "w", "c", "o", "d", "e">>, <<>>), <<"-", "v", "i", "e", "w", "c", "o", "d", "e">>, <<>>)))

\* line 243
is_sentinel_free(arg) == ~contains(arg, Sentinel)

\* lines 254-257
keyword_value(arg) == strip_quotes(trim(arg))

\* line 261
bare_working_dir_value(arg) == trim(arg)

\* lines 249 and 264
forwarded_value(arg) == trim(arg)

(***************************************************************************)
(* State of one run(): its locals (lines 89-101), the position of the      *)
(* scan, and the calls made so far to help(), license(), version() and     *)
(* the ToolManager.                                                        *)
(***************************************************************************)
VARIABLES
    args,                \* env::args().collect(), argv[0] first
    sep,                 \* path::MAIN_SEPARATOR of the build
    pc,                  \* "start", "scan", "resolve", "dispatch", "done"
    i,                   \* index in args of the token the loop is at
    working_dir,
    tool_name,
    run_tool,
    tool_help,
    tool_parameters,
    toolbox,
    list_tools,
    keywords,
    view_code,
    tool_args_vec,
    verbose,
    finding_working_dir,
    calls,               \* the calls made so far, in order
    result               \* "none" while running, then what run() returns

vars == <<args, sep, pc, i, working_dir, tool_name, run_tool, tool_help,
          tool_parameters, toolbox, list_tools, keywords, view_code,
          tool_args_vec, verbose, finding_working_dir, calls, result>>

\* The locals the scan loop writes.
locals == <<working_dir, tool_name, run_tool, tool_help, tool_parameters, toolbox,
            list_tools, keywords, view_code, tool_args_vec, verbose,
            finding_working_dir>>

\* One call: `name` is its string argument (the tool name, or the working
\* directory of ToolManager::new), `list` its vector argument, `verbose`
\* the flag ToolManager::new receives, `ok` whether it returned without error.
Call(c, n, l, v, ok) == [call |-> c, name |-> n, list |-> l, verbose |-> v, ok |-> ok]

Printed(c) == Call(c, <<>>, <<>>, FALSE, TRUE)

\* Whether tm.list_tools() and tm.list_tools_with_keywords() succeed: spec
\* section 4.3 gives every operation a result or an error; run() calls both
\* as statements (lines 139, 299, 301) and returns neither value.
ListingOutcomes == BOOLEAN

Init ==
    /\ args \in ArgVectors
    /\ sep \in Separators
    /\ pc = "start"
    /\ i = 1
    /\ working_dir = <<>>
    /\ tool_name = <<>>
    /\ run_tool = FALSE
    /\ tool_help = FALSE
    /\ tool_parameters = FALSE
    /\ toolbox = FALSE
    /\ list_tools = FALSE
    /\ keywords = <<>>
    /\ view_code = FALSE
    /\ tool_args_vec = <<>>
    /\ verbose = FALSE
    /\ finding_working_dir = FALSE
    /\ calls = <<>>
    /\ result = "none"

\* DefaultListing taken for `args.len() <= 2`.
DefaultListing_one_token_too ==
    /\ pc = "start"
    /\ Len(args) <= 2
    /\ \E ok \in BOOLEAN, listed \in ListingOutcomes :
          /\ calls' = <<Printed("version"), Printed("help"),
                        Call("new", working_dir, <<>>, verbose, ok)>>
                      \o (IF ok THEN <<Call("list_tools", <<>>, <<>>, FALSE, listed)>>
                          ELSE <<>>)
          /\ result' = IF ok THEN "Ok" ELSE "ConstructionError"
    /\ pc' = "done"
    /\ UNCHANGED <<args, sep, i, working_dir, tool_name, run_tool, tool_help,
                   tool_parameters, toolbox, list_tools, keywords, view_code,
                   tool_args_vec, verbose, finding_working_dir>>

\* lines 133-142: no argument after argv[0].
DefaultListing ==
    /\ pc = "start"
    /\ Len(args) <= 1
    /\ \E ok \in BOOLEAN, listed \in ListingOutcomes :
          /\ calls' = <<Printed("version"), Printed("help"),
                        Call("new", working_dir, <<>>, verbose, ok)>>
                      \o (IF ok THEN <<Call("list_tools", <<>>, <<>>, FALSE, listed)>>
                          ELSE <<>>)
          /\ result' = IF ok THEN "Ok" ELSE "ConstructionError"
    /\ pc' = "done"
    /\ UNCHANGED <<args, sep, i, locals>>

\* line 143: the loop starts at args[0], the program name.
EnterLoop ==
    /\ pc = "start"
    /\ Len(args) > 1
    /\ pc' = "scan"
    /\ UNCHANGED <<args, sep, i, locals, calls, result>>

arg == args[i]

\* The loop moves to the next token, or ends after the last.
NextToken ==
    /\ i' = i + 1
    /\ pc' = IF i = Len(args) THEN "resolve" ELSE "scan"
    /\ UNCHANGED <<args, sep, calls, result>>

\* A branch that prints and returns Ok(()) out of the loop.
Shortcut(c) ==
    /\ calls' = Append(calls, Printed(c))
    /\ result' = "Ok"
    /\ pc' = "done"
    /\ UNCHANGED <<args, sep, i, locals>>

\* lines 145-147
ScanHelp ==
    /\ pc = "scan"
    /\ BranchOf[arg] = "help"
    /\ Shortcut("help")

\* lines 148-165
ScanWorkingDir ==
    /\ pc = "scan"
    /\ BranchOf[arg] = "working_dir"
    /\ finding_working_dir' =
          IF trim(working_dir_value(arg)) = <<>> THEN TRUE ELSE finding_working_dir
    /\ working_dir' = with_separator(working_dir_value(arg), sep)
    /\ NextToken
    /\ UNCHANGED <<tool_name, run_tool, tool_help, tool_parameters, toolbox,
                   list_tools, keywords, view_code, tool_args_vec, verbose>>

\* lines 166-177
ScanRun ==
    /\ pc = "scan"
    /\ BranchOf[arg] = "run"
    /\ tool_name' = run_value(arg)
    /\ run_tool' = TRUE
    /\ NextToken
    /\ UNCHANGED <<working_dir, tool_help, tool_parameters, toolbox, list_tools,
                   keywords, view_code, tool_args_vec, verbose, finding_working_dir>>

\* lines 178-188
ScanToolHelp ==
    /\ pc = "scan"
    /\ BranchOf[arg] = "toolhelp"
    /\ tool_name' = toolhelp_value(arg)
    /\ tool_help' = TRUE
    /\ NextToken
    /\ UNCHANGED <<working_dir, run_tool, tool_parameters, toolbox, list_tools,
                   keywords, view_code, tool_args_vec, verbose, finding_working_dir>>

\* lines 189-199
ScanToolParameters ==
    /\ pc = "scan"
    /\ BranchOf[arg] = "toolparameters"
    /\ tool_name' = toolparameters_value(arg)
    /\ tool_parameters' = TRUE
    /\ NextToken
    /\ UNCHANGED <<working_dir, run_tool, tool_help, toolbox, list_tools,
                   keywords, view_code, tool_args_vec, verbose, finding_working_dir>>

\* lines 200-210
ScanToolbox ==
    /\ pc = "scan"
    /\ BranchOf[arg] = "toolbox"
    /\ tool_name' = toolbox_value(arg)
    /\ toolbox' = TRUE
    /\ NextToken
    /\ UNCHANGED <<working_dir, run_tool, tool_help, tool_parameters, list_tools,
                   keywords, view_code, tool_args_vec, verbose, finding_working_dir>>

\* lines 211-216
ScanListTools ==
    /\ pc = "scan"
    /\ BranchOf[arg] = "listtools"
    /\ list_tools' = TRUE
    /\ NextToken
    /\ UNCHANGED <<working_dir, tool_name, run_tool, tool_help, tool_parameters,
                   toolbox, keywords, view_code, tool_args_vec, verbose,
                   finding_working_dir>>

\* ScanViewCode keeping a tool_name an earlier flag wrote.
ScanViewCode_first_writer_wins ==
    /\ pc = "scan"
    /\ BranchOf[arg] = "viewcode"
    /\ tool_name' = IF tool_name = <<>> THEN viewcode_value(arg) ELSE tool_name
    /\ view_code' = TRUE
    /\ NextToken
    /\ UNCHANGED <<working_dir, run_tool, tool_help, tool_parameters, toolbox,
                   list_tools, keywords, tool_args_vec, verbose, finding_working_dir>>

\* lines 217-227
ScanViewCode ==
    /\ pc = "scan"
    /\ BranchOf[arg] = "viewcode"
    /\ tool_name' = viewcode_value(arg)
    /\ view_code' = TRUE
    /\ NextToken
    /\ UNCHANGED <<working_dir, run_tool, tool_help, tool_parameters, toolbox,
                   list_tools, keywords, tool_args_vec, verbose, finding_working_dir>>

\* lines 228-235
ScanLicense ==
    /\ pc = "scan"
    /\ BranchOf[arg] = "license"
    /\ Shortcut("license")

\* lines 236-238
ScanVersion ==
    /\ pc = "scan"
    /\ BranchOf[arg] = "version"
    /\ Shortcut("version")

\* lines 239-240
ScanVerbose ==
    /\ pc = "scan"
    /\ BranchOf[arg] = "verbose"
    /\ verbose' = TRUE
    /\ NextToken
    /\ UNCHANGED <<working_dir, tool_name, run_tool, tool_help, tool_parameters,
                   toolbox, list_tools, keywords, view_code, tool_args_vec,
                   finding_working_dir>>

\* lines 241-250
ScanToolArg ==
    /\ pc = "scan"
    /\ BranchOf[arg] = "tool_arg"
    /\ tool_args_vec' = IF is_sentinel_free(arg)
                        THEN Append(tool_args_vec, forwarded_value(arg))
                        ELSE tool_args_vec
    /\ NextToken
    /\ UNCHANGED <<working_dir, tool_name, run_tool, tool_help, tool_parameters,
                   toolbox, list_tools, keywords, view_code, verbose,
                   finding_working_dir>>

\* lines 251-266
ScanKeyword ==
    /\ pc = "scan"
    /\ BranchOf[arg] = "keyword"
    /\ keywords' = Append(keywords, keyword_value(arg))
    /\ IF finding_working_dir
       THEN /\ working_dir' = bare_working_dir_value(arg)
            /\ finding_working_dir' = FALSE
            /\ UNCHANGED tool_args_vec
       ELSE /\ tool_args_vec' = IF Len(tool_args_vec) > 0
                                THEN Append(tool_args_vec, forwarded_value(arg))
                                ELSE tool_args_vec
            /\ UNCHANGED <<working_dir, finding_working_dir>>
    /\ NextToken
    /\ UNCHANGED <<tool_name, run_tool, tool_help, tool_parameters, toolbox,
                   list_tools, view_code, verbose>>

\* line 251, condition false: a bare token holding "whitebox_tools" falls out
\* of the chain with no effect.
ScanIgnored ==
    /\ pc = "scan"
    /\ BranchOf[arg] = "none"
    /\ NextToken
    /\ UNCHANGED locals

\* Construct handing ToolManager::new the verbose of line 100, as a
\* construction placed before the scan would.
Construct_with_initial_verbose ==
    /\ pc = "resolve"
    /\ working_dir' = with_separator(working_dir, sep)
    /\ \E ok \in BOOLEAN :
          /\ calls' = Append(calls, Call("new", working_dir', <<>>, FALSE, ok))
          /\ pc' = IF ok THEN "dispatch" ELSE "done"
          /\ result' = IF ok THEN result ELSE "ConstructionError"
    /\ UNCHANGED <<args, sep, i, tool_name, run_tool, tool_help, tool_parameters,
                   toolbox, list_tools, keywords, view_code, tool_args_vec, verbose,
                   finding_working_dir>>

\* lines 269-273: the separator is appended and the ToolManager built; `?`
\* returns its error.
Construct ==
    /\ pc = "resolve"
    /\ working_dir' = with_separator(working_dir, sep)
    /\ \E ok \in BOOLEAN :
          /\ calls' = Append(calls, Call("new", working_dir', <<>>, verbose, ok))
          /\ pc' = IF ok THEN "dispatch" ELSE "done"
          /\ result' = IF ok THEN result ELSE "ConstructionError"
    /\ UNCHANGED <<args, sep, i, tool_name, run_tool, tool_help, tool_parameters,
                   toolbox, list_tools, keywords, view_code, tool_args_vec, verbose,
                   finding_working_dir>>

\* Selected with the view_code branch of lines 303-307 left out.
Selected_without_view_code ==
    IF run_tool THEN "run_tool"
    ELSE IF tool_help THEN "tool_help"
    ELSE IF tool_parameters THEN "tool_parameters"
    ELSE IF toolbox THEN "toolbox"
    ELSE IF list_tools THEN "list_tools"
    ELSE "none"

\* Selected with the tool_help branch tested before the run_tool branch.
Selected_tool_help_first ==
    IF tool_help THEN "tool_help"
    ELSE IF run_tool THEN "run_tool"
    ELSE IF tool_parameters THEN "tool_parameters"
    ELSE IF toolbox THEN "toolbox"
    ELSE IF list_tools THEN "list_tools"
    ELSE IF view_code THEN "get_tool_source_code"
    ELSE "none"

\* The if / else-if chain of lines 274-308: the operation run() dispatches.
Selected ==
    IF run_tool THEN "run_tool"
    ELSE IF tool_help THEN "tool_help"
    ELSE IF tool_parameters THEN "tool_parameters"
    ELSE IF toolbox THEN "toolbox"
    ELSE IF list_tools THEN "list_tools"
    ELSE IF view_code THEN "get_tool_source_code"
    ELSE "none"

\* name_or_first_keyword without the fallback to keywords[0].
name_or_first_keyword_no_fallback == tool_name

\* `if tool_name.is_empty() && keywords.len() > 0 { tool_name = keywords[0].clone(); }`
name_or_first_keyword ==
    IF tool_name = <<>> /\ Len(keywords) > 0 THEN keywords[1] ELSE tool_name

\* Returned with the operation's Result dropped and Ok(()) returned.
Returned_result_dropped(c, l) ==
    /\ tool_name' = name_or_first_keyword
    /\ \E ok \in BOOLEAN :
          /\ calls' = Append(calls, Call(c, tool_name', l, FALSE, ok))
          /\ result' = "Ok"
    /\ pc' = "done"
    /\ UNCHANGED <<args, sep, i, working_dir, run_tool, tool_help, tool_parameters,
                   toolbox, list_tools, keywords, view_code, tool_args_vec, verbose,
                   finding_working_dir>>

\* A dispatched operation whose Result run() returns.
Returned(c, l) ==
    /\ tool_name' = name_or_first_keyword
    /\ \E ok \in BOOLEAN :
          /\ calls' = Append(calls, Call(c, tool_name', l, FALSE, ok))
          /\ result' = IF ok THEN "Ok" ELSE "DispatchError"
    /\ pc' = "done"
    /\ UNCHANGED <<args, sep, i, working_dir, run_tool, tool_help, tool_parameters,
                   toolbox, list_tools, keywords, view_code, tool_args_vec, verbose,
                   finding_working_dir>>

\* lines 274-278
DispatchRunTool ==
    /\ pc = "dispatch"
    /\ Selected = "run_tool"
    /\ Returned("run_tool", tool_args_vec)

\* lines 279-283
DispatchToolHelp ==
    /\ pc = "dispatch"
    /\ Selected = "tool_help"
    /\ Returned("tool_help", <<>>)

\* lines 284-288
DispatchToolParameters ==
    /\ pc = "dispatch"
    /\ Selected = "tool_parameters"
    /\ Returned("tool_parameters", <<>>)

\* lines 289-296
DispatchToolbox ==
    /\ pc = "dispatch"
    /\ Selected = "toolbox"
    /\ Returned("toolbox", <<>>)

\* lines 297-302: neither listing call's value is returned; run() falls
\* through to the Ok(()) of line 310.
DispatchListTools ==
    /\ pc = "dispatch"
    /\ Selected = "list_tools"
    /\ \E listed \in ListingOutcomes :
          calls' = Append(calls,
                          IF Len(keywords) = 0
                          THEN Call("list_tools", <<>>, <<>>, FALSE, listed)
                          ELSE Call("list_tools_with_keywords", <<>>, keywords, FALSE, listed))
    /\ result' = "Ok"
    /\ pc' = "done"
    /\ UNCHANGED <<args, sep, i, locals>>

\* lines 303-307
DispatchViewCode ==
    /\ pc = "dispatch"
    /\ Selected = "get_tool_source_code"
    /\ Returned("get_tool_source_code", <<>>)

\* line 310: no action flag was set.
DispatchNothing ==
    /\ pc = "dispatch"
    /\ Selected = "none"
    /\ result' = "Ok"
    /\ pc' = "done"
    /\ UNCHANGED <<args, sep, i, locals, calls>>

\* lines 68-73: main returns when run() returned Ok(()) and panics with the
\* error otherwise.
main ==
    IF pc # "done" THEN "running"
    ELSE IF result = "Ok" THEN "return" ELSE "panic"

Next ==
    \/ DefaultListing
    \/ EnterLoop
    \/ ScanHelp
    \/ ScanWorkingDir
    \/ ScanRun
    \/ ScanToolHelp
    \/ ScanToolParameters
    \/ ScanToolbox
    \/ ScanListTools
    \/ ScanViewCode
    \/ ScanLicense
    \/ ScanVersion
    \/ ScanVerbose
    \/ ScanToolArg
    \/ ScanKeyword
    \/ ScanIgnored
    \/ Construct
    \/ DispatchRunTool
    \/ DispatchToolHelp
    \/ DispatchToolParameters
    \/ DispatchToolbox
    \/ DispatchListTools
    \/ DispatchViewCode
    \/ DispatchNothing

Spec == Init /\ [][Next]_vars

(***************************************************************************)
(* Vocabulary of the properties.                                           *)
(***************************************************************************)
\* The operations of the ToolManager (spec section 4.3).
BackendOps ==
    {"run_tool", "tool_help", "tool_parameters", "toolbox", "list_tools",
     "list_tools_with_keywords", "get_tool_source_code"}

\* The operations that take a tool name.
NamedOps == {"run_tool", "tool_help", "tool_parameters", "toolbox", "get_tool_source_code"}

IsBackendOp(c) == c.call \in BackendOps

IsNew(c) == c.call = "new"

\* The backend operations invoked so far, and the constructions so far.
OpsInvoked == SelectSeq(calls, IsBackendOp)

Constructions == SelectSeq(calls, IsNew)

\* A help, license or version text was printed by a shortcut of the scan.
ShortcutTaken ==
    /\ Len(args) > 1
    /\ \E k \in 1..Len(calls) : calls[k].call \in {"help", "license", "version"}

AnyActionFlag ==
    run_tool \/ tool_help \/ tool_parameters \/ toolbox \/ list_tools \/ view_code

\* The alias lists of spec section 4.1.
HelpAliases == {<<"-", "h">>, <<"-", "-", "h">>, <<"-", "h", "e", "l", "p">>, <<"-", "-", "h", "e", "l", "p">>}

LicenseAliases == {<<"-", "l">>, <<"-", "l", "i", "c", "e", "n", "s", "e">>, <<"-", "l", "i", "c", "e", "n", "c", "e">>, <<"-", "-", "l", "i", "c", "e", "n", "s", "e">>, <<"-", "-", "l", "i", "c", "e", "n", "c", "e">>}

VersionAliases == {<<"-", "v", "e", "r", "s", "i", "o", "n">>, <<"-", "-", "v", "e", "r", "s", "i", "o", "n">>}

IsShortcutToken(t) ==
    \/ to_lowercase(t) \in HelpAliases
    \/ t \in LicenseAliases
    \/ t \in VersionAliases

\* The precedence order of spec section 4.2, highest first, and the same
\* order over the branches of the scan that set the action flags.
Priority ==
    <<"run_tool", "tool_help", "tool_parameters", "toolbox", "list_tools",
      "get_tool_source_code">>

ActionBranches == <<"run", "toolhelp", "toolparameters", "toolbox", "listtools", "viewcode">>

Rank(op) ==
    CHOOSE p \in 1..Len(Priority) :
        Priority[p] = (IF op = "list_tools_with_keywords" THEN "list_tools" ELSE op)

\* The ranks of the action flags the tokens of the input set.
RanksInInput ==
    {p \in 1..Len(ActionBranches) :
        \E k \in 1..Len(args) : BranchOf[args[k]] = ActionBranches[p]}

(***************************************************************************)
(* C1                                                                      *)
(***************************************************************************)
\* C1 as stated: whenever an argument list with at least one token after the
\* program name is resolved without a help, license or version shortcut (and
\* the ToolManager could be built), exactly one ToolManager operation has
\* been invoked when run() returns.
C1_ExactlyOneOperation ==
    (pc = "done" /\ Len(args) > 1 /\ ~ShortcutTaken /\ result # "ConstructionError") =>
        Len(OpsInvoked) = 1

\* C1 amended: when run() returns without a shortcut and the ToolManager was
\* built, exactly one operation has been invoked if an action flag was set
\* during the scan and none if no action flag was set; when the ToolManager
\* could not be built, none.
C1_OneOperationIffActionFlag ==
    (pc = "done" /\ Len(args) > 1 /\ ~ShortcutTaken) =>
        Len(OpsInvoked) = (IF result # "ConstructionError" /\ AnyActionFlag THEN 1 ELSE 0)

\* `whitebox_tools -v` returned Ok(()) having built the ToolManager and
\* invoked nothing.
C1_Witness ==
    /\ pc = "done"
    /\ args = <<Prog_whitebox_tools, Tok_v>>
    /\ result = "Ok"
    /\ Len(Constructions) = 1
    /\ OpsInvoked = <<>>

(***************************************************************************)
(* C2                                                                      *)
(***************************************************************************)
\* C2: when run() has dispatched, the one operation invoked is that of the
\* highest-priority action flag among those the tokens of the input set, in
\* the order RunTool > ToolHelp > ToolParameters > Toolbox > ListTools >
\* ViewCode, whatever the order of the tokens; no second operation is invoked.
C2_FixedPrecedence ==
    (pc = "done" /\ Len(args) > 1 /\ OpsInvoked # <<>>) =>
        /\ Len(OpsInvoked) = 1
        /\ Rank(OpsInvoked[1].call) \in RanksInInput
        /\ \A q \in RanksInInput : Rank(OpsInvoked[1].call) <= q

\* `--viewcode=V -r=S`: the lower-priority flag came first and run_tool was
\* invoked.
C2_Witness ==
    /\ pc = "done"
    /\ args = <<Prog_whitebox_tools, Tok_viewcode_V, Tok_r_S>>
    /\ view_code /\ run_tool
    /\ Len(OpsInvoked) = 1
    /\ OpsInvoked[1].call = "run_tool"

(***************************************************************************)
(* C3                                                                      *)
(***************************************************************************)
\* C3: a step of the scan at a help, license or version alias ends run() with
\* Ok(()): no ToolManager has been built, no operation invoked, the scan
\* index does not move, and no step follows the return.
C3_ShortcutEndsProcessing ==
    [][/\ pc # "done"
       /\ (pc = "scan" /\ IsShortcutToken(args[i])) =>
             /\ pc' = "done"
             /\ result' = "Ok"
             /\ Constructions' = <<>>
             /\ OpsInvoked' = <<>>
             /\ i' = i
             /\ locals' = locals]_vars

\* `-r=S --license`: the license ended processing with the run flag and the
\* tool name already accumulated.
C3_Witness ==
    /\ pc = "done"
    /\ args = <<Prog_whitebox_tools, Tok_r_S, Tok_license>>
    /\ i = 3
    /\ run_tool
    /\ tool_name = <<"S">>
    /\ calls = <<Printed("license")>>
    /\ result = "Ok"

(***************************************************************************)
(* C4                                                                      *)
(***************************************************************************)
\* C4 as stated: no element of tool_args_vec, and no element of the list
\* passed to run_tool, contains the sentinel "-17976931348623157".
C4_NoSentinelForwarded ==
    /\ \A k \in 1..Len(tool_args_vec) : ~contains(tool_args_vec[k], Sentinel)
    /\ \A c \in 1..Len(calls) :
          calls[c].call = "run_tool" =>
              \A k \in 1..Len(calls[c].list) : ~contains(calls[c].list[k], Sentinel)

(***************************************************************************)
(* C5                                                                      *)
(***************************************************************************)
\* C5 as stated: the working directory of every ToolManager::new ends with
\* exactly one platform separator.
C5_ExactlyOneSeparator ==
    \A k \in 1..Len(calls) :
        calls[k].call = "new" =>
            /\ ends_with(calls[k].name, sep)
            /\ ~ends_with(calls[k].name, sep \o sep)

\* C5 amended: after a scan, the working directory passed to ToolManager::new
\* ends with the platform separator (with more than one when the value
\* supplied ended with several); on the zero-argument path it is the empty
\* string.
C5_SeparatorAfterScan ==
    \A k \in 1..Len(calls) :
        calls[k].call = "new" =>
            IF Len(args) <= 1
            THEN calls[k].name = <<>>
            ELSE ends_with(calls[k].name, sep)

\* `--cd=/d`: the ToolManager was built with "/d" followed by the separator.
C5_Witness ==
    /\ args = <<Prog_whitebox_tools, Tok_cd_d>>
    /\ Len(Constructions) = 1
    /\ Constructions[1].name = <<"/", "d">> \o sep

(***************************************************************************)
(* C6                                                                      *)
(***************************************************************************)
HasQuote(s) == \E k \in 1..Len(s) : s[k] \in {"\"", "'"}

\* C6 as stated: at every point of the scan and after it, tool_name,
\* working_dir and every element of keywords are free of single-quote and
\* double-quote characters.
C6_NoQuoteStored ==
    /\ ~HasQuote(tool_name)
    /\ ~HasQuote(working_dir)
    /\ \A k \in 1..Len(keywords) : ~HasQuote(keywords[k])

(***************************************************************************)
(* C7                                                                      *)
(***************************************************************************)
\* The name-bearing aliases of spec section 4.1, each with the rank (in
\* Priority) of the action it marks.
NameAliases ==
    { [text |-> <<"-", "r">>, rank |-> 1], [text |-> <<"-", "r", "u", "n">>, rank |-> 1],
      [text |-> <<"-", "-", "r", "u", "n">>, rank |-> 1],
      [text |-> <<"-", "t", "o", "o", "l", "h", "e", "l", "p">>, rank |-> 2], [text |-> <<"-", "-", "t", "o", "o", "l", "h", "e", "l", "p">>, rank |-> 2],
      [text |-> <<"-", "t", "o", "o", "l", "p", "a", "r", "a", "m", "e", "t", "e", "r", "s">>, rank |-> 3], [text |-> <<"-", "-", "t", "o", "o", "l", "p", "a", "r", "a", "m", "e", "t", "e", "r", "s">>, rank |-> 3],
      [text |-> <<"-", "t", "o", "o", "l", "b", "o", "x">>, rank |-> 4], [text |-> <<"-", "-", "t", "o", "o", "l", "b", "o", "x">>, rank |-> 4],
      [text |-> <<"-", "v", "i", "e", "w", "c", "o", "d", "e">>, rank |-> 6], [text |-> <<"-", "-", "v", "i", "e", "w", "c", "o", "d", "e">>, rank |-> 6] }

FlagOfRank(p) ==
    CASE p = 1 -> run_tool
      [] p = 2 -> tool_help
      [] p = 3 -> tool_parameters
      [] p = 4 -> toolbox
      [] p = 5 -> list_tools
      [] p = 6 -> view_code

\* The text of token t after alias a and one "=".
InlineValue(t, a) == SubSeq(t, Len(a.text) + 2, Len(t))

\* C7 as stated: when the token just scanned is A=V, with A a name-bearing
\* alias and V free of quotes, tool_name is exactly V and the action flag of
\* A is set.
C7_InlineNameStoredExactly ==
    (pc \in {"scan", "resolve"} /\ i > 1) =>
        \A a \in NameAliases :
            (/\ starts_with(args[i - 1], a.text \o <<"=">>)
             /\ ~HasQuote(InlineValue(args[i - 1], a))) =>
                /\ tool_name = InlineValue(args[i - 1], a)
                /\ FlagOfRank(a.rank)

(***************************************************************************)
(* C8                                                                      *)
(***************************************************************************)
\* C8: every dispatch of an operation that takes a name passes the first
\* keyword when tool_name is empty and keywords is not, and tool_name
\* unchanged otherwise (the empty name when both are empty, as Toolbox
\* allows).
C8_NameFallback ==
    [][(/\ pc = "dispatch"
        /\ Len(calls') = Len(calls) + 1
        /\ calls'[Len(calls')].call \in NamedOps) =>
            calls'[Len(calls')].name =
                (IF tool_name = <<>> /\ keywords # <<>> THEN keywords[1] ELSE tool_name)]_vars

\* `-r k`: run_tool was invoked with the keyword as the tool name.
C8_Witness ==
    /\ pc = "done"
    /\ args = <<Prog_whitebox_tools, Tok_r, Tok_k>>
    /\ keywords = <<<<"k">>>>
    /\ Len(OpsInvoked) = 1
    /\ OpsInvoked[1].call = "run_tool"
    /\ OpsInvoked[1].name = <<"k">>

(***************************************************************************)
(* C9                                                                      *)
(***************************************************************************)
\* C9 as stated: once argv[0] has been scanned keywords is still empty, and
\* at every later point of the scan keywords holds one element for each bare
\* token (a token with no leading "-") scanned after argv[0].
C9_ProgramNameFiltered ==
    (pc \in {"scan", "resolve"} /\ i > 1) =>
        Len(keywords) = Cardinality({k \in 2..(i - 1) : ~starts_with(args[k], <<"-">>)})

(***************************************************************************)
(* C10                                                                     *)
(***************************************************************************)
\* C10 as stated: run() returns from the license branch exactly when the
\* token it is at is one of -l, -license, -licence, --license, --licence.
C10_LicenseExactAliases ==
    (pc = "done" /\ Len(args) > 1) =>
        ((calls # <<>> /\ calls[Len(calls)].call = "license")
            <=> (i <= Len(args) /\ args[i] \in LicenseAliases))

(***************************************************************************)
(* C11                                                                     *)
(***************************************************************************)
\* Every alias of spec section 6 other than the help aliases.
CaseSensitiveAliases ==
    { <<"-", "c", "d">>, <<"-", "-", "c", "d">>, <<"-", "w", "d">>, <<"-", "-", "w", "d">>, <<"-", "r">>, <<"-", "r", "u", "n">>, <<"-", "-", "r", "u", "n">>,
      <<"-", "t", "o", "o", "l", "h", "e", "l", "p">>, <<"-", "-", "t", "o", "o", "l", "h", "e", "l", "p">>, <<"-", "t", "o", "o", "l", "p", "a", "r", "a", "m", "e", "t", "e", "r", "s">>, <<"-", "-", "t", "o", "o", "l", "p", "a", "r", "a", "m", "e", "t", "e", "r", "s">>,
      <<"-", "t", "o", "o", "l", "b", "o", "x">>, <<"-", "-", "t", "o", "o", "l", "b", "o", "x">>, <<"-", "l", "i", "s", "t", "t", "o", "o", "l", "s">>, <<"-", "-", "l", "i", "s", "t", "t", "o", "o", "l", "s">>,
      <<"-", "l", "i", "s", "t", "_", "t", "o", "o", "l", "s">>, <<"-", "-", "l", "i", "s", "t", "_", "t", "o", "o", "l", "s">>, <<"-", "v", "i", "e", "w", "c", "o", "d", "e">>, <<"-", "-", "v", "i", "e", "w", "c", "o", "d", "e">>,
      <<"-", "l">>, <<"-", "l", "i", "c", "e", "n", "s", "e">>, <<"-", "l", "i", "c", "e", "n", "c", "e">>, <<"-", "-", "l", "i", "c", "e", "n", "s", "e">>, <<"-", "-", "l", "i", "c", "e", "n", "c", "e">>,
      <<"-", "v", "e", "r", "s", "i", "o", "n">>, <<"-", "-", "v", "e", "r", "s", "i", "o", "n">>, <<"-", "v">> }

\* Token t starts with an alias written in another letter case, and with no
\* alias as written.
DiffersOnlyInCase(t) ==
    /\ to_lowercase(t) \notin HelpAliases
    /\ \E a \in CaseSensitiveAliases :
          Len(t) >= Len(a) /\ to_lowercase(SubSeq(t, 1, Len(a))) = a
    /\ ~\E a \in CaseSensitiveAliases : starts_with(t, a)

ActionFlags == <<run_tool, tool_help, tool_parameters, toolbox, list_tools, view_code>>

\* C11 as stated: a step of the scan at a help alias in any letter case
\* prints the help and returns, and a step at a token that differs from
\* another alias only in letter case leaves working_dir, tool_name,
\* finding_working_dir, verbose and every action flag unchanged and does not
\* end the scan.
C11_OnlyHelpIgnoresCase ==
    [][pc = "scan" =>
          /\ to_lowercase(arg) \in HelpAliases =>
                (pc' = "done" /\ calls' = Append(calls, Printed("help")))
          /\ DiffersOnlyInCase(arg) =>
                /\ pc' # "done"
                /\ working_dir' = working_dir
                /\ tool_name' = tool_name
                /\ finding_working_dir' = finding_working_dir
                /\ verbose' = verbose
                /\ ActionFlags' = ActionFlags]_vars

(***************************************************************************)
(* C12                                                                     *)
(***************************************************************************)
\* The names of the calls made so far, in order.
CallNames == [k \in 1..Len(calls) |-> calls[k].call]

\* C12: when run() returns from an invocation with no token after the
\* program name, it has printed the version, printed the help, built the
\* ToolManager and, the ToolManager built, requested the full listing, in
\* this order and nothing else; no invocation with a token after the program
\* name prints the version and then the help, nor makes these four calls.
C12_DefaultListing ==
    pc = "done" =>
        IF Len(args) <= 1
        THEN /\ SubSeq(CallNames, 1, 3) = <<"version", "help", "new">>
             /\ CallNames = (IF calls[3].ok
                             THEN <<"version", "help", "new", "list_tools">>
                             ELSE <<"version", "help", "new">>)
             /\ calls[3].name = <<>> /\ ~calls[3].verbose
             /\ result = (IF calls[3].ok THEN "Ok" ELSE "ConstructionError")
        ELSE /\ CallNames # <<"version", "help", "new", "list_tools">>
             /\ ~(Len(CallNames) >= 2 /\ SubSeq(CallNames, 1, 2) = <<"version", "help">>)

\* `whitebox_tools` alone returned Ok(()) after the four calls.
C12_Witness ==
    /\ pc = "done"
    /\ args = <<Prog_whitebox_tools>>
    /\ CallNames = <<"version", "help", "new", "list_tools">>
    /\ result = "Ok"

IsBare(t) == ~starts_with(t, <<"-">>)

\* C14 as stated: a step of the scan at a bare token while
\* finding_working_dir is set stores the token as working_dir, clears
\* finding_working_dir and leaves keywords unchanged.
C14_ConsumedValueIsNoKeyword ==
    [][(pc = "scan" /\ finding_working_dir /\ IsBare(arg)) =>
          /\ keywords' = keywords
          /\ ~finding_working_dir'
          /\ working_dir' = trim(arg)]_vars

(***************************************************************************)
(* C15                                                                     *)
(***************************************************************************)
WorkingDirAliases == {<<"-", "c", "d">>, <<"-", "-", "c", "d">>, <<"-", "w", "d">>, <<"-", "-", "w", "d">>}

\* The text of token t after alias a, an optional "=" and the quotes.
RemainingText(t, a) ==
    LET rest == SubSeq(t, Len(a) + 1, Len(t))
    IN  strip_quotes(IF starts_with(rest, <<"=">>) THEN Tail(rest) ELSE rest)

\* C15 as stated: a step of the scan at a working-directory flag with a
\* non-empty remaining text overwrites working_dir with that text (with or
\* without the separator appended), and at one with an empty remaining text
\* it sets finding_working_dir and leaves working_dir unchanged.
C15_LastSuppliedValueWins ==
    [][pc = "scan" =>
          \A a \in WorkingDirAliases :
              starts_with(arg, a) =>
                  IF RemainingText(arg, a) = <<>>
                  THEN finding_working_dir' /\ working_dir' = working_dir
                  ELSE /\ working_dir' \in {RemainingText(arg, a), RemainingText(arg, a) \o sep}
                       /\ finding_working_dir' = finding_working_dir]_vars

(***************************************************************************)
(* C16                                                                     *)
(***************************************************************************)
\* No token of the input takes the working-directory branch.
NoWorkingDirToken == \A k \in 1..Len(args) : BranchOf[args[k]] # "working_dir"

\* C16 as stated: the ToolManager built after the scan receives working_dir
\* with the separator appended only if working_dir is non-empty and does not
\* end with it, and the empty working_dir unchanged.
C16_SeparatorUnlessEmpty ==
    [][pc = "resolve" =>
          /\ calls'[Len(calls')].call = "new"
          /\ calls'[Len(calls')].name =
                (IF working_dir # <<>> /\ ~ends_with(working_dir, sep)
                 THEN working_dir \o sep
                 ELSE working_dir)]_vars

\* C16 amended: the ToolManager built after the scan receives working_dir
\* with the separator appended whenever working_dir does not end with it, the
\* empty working_dir included: when no working-directory token was supplied
\* it receives the separator alone.
C16_SeparatorAlsoWhenEmpty ==
    [][pc = "resolve" =>
          /\ calls'[Len(calls')].call = "new"
          /\ calls'[Len(calls')].name =
                (IF ends_with(working_dir, sep) THEN working_dir ELSE working_dir \o sep)
          /\ NoWorkingDirToken => calls'[Len(calls')].name = sep]_vars

\* `-v`: no working directory was supplied and the ToolManager was built
\* with the separator alone.
C16_Witness ==
    /\ args = <<Prog_whitebox_tools, Tok_v>>
    /\ working_dir = sep
    /\ Len(Constructions) = 1
    /\ Constructions[1].name = sep

(***************************************************************************)
(* C17                                                                     *)
(***************************************************************************)
\* C17 as stated: a step of the scan at a bare token that is not consumed
\* as the working directory appends the token at the end of tool_args_vec if
\* tool_args_vec is non-empty, and leaves tool_args_vec empty otherwise.
C17_BareForwardedIffStarted ==
    [][(pc = "scan" /\ IsBare(arg) /\ ~finding_working_dir) =>
          tool_args_vec' = (IF tool_args_vec # <<>>
                            THEN Append(tool_args_vec, trim(arg))
                            ELSE <<>>)]_vars

(***************************************************************************)
(* C18                                                                     *)
(***************************************************************************)
\* The branches of the scan that write tool_name.
NameBranches == {"run", "toolhelp", "toolparameters", "toolbox", "viewcode"}

\* The value the branch of token t extracts from it.
ExtractedName(t) ==
    CASE BranchOf[t] = "run" -> run_value(t)
      [] BranchOf[t] = "toolhelp" -> toolhelp_value(t)
      [] BranchOf[t] = "toolparameters" -> toolparameters_value(t)
      [] BranchOf[t] = "toolbox" -> toolbox_value(t)
      [] BranchOf[t] = "viewcode" -> viewcode_value(t)

\* The positions among the first n tokens that write tool_name.
NameWriters(n) == {k \in 1..n : BranchOf[args[k]] \in NameBranches}

\* C18: throughout the scan and until the dispatch, tool_name is the value
\* extracted from the last run, toolhelp, toolparameters, toolbox or viewcode
\* token scanned so far (empty if there is none): no other token writes it,
\* and a later writer replaces an earlier one whatever their priorities.
C18_LastWriterWins ==
    pc \in {"scan", "resolve", "dispatch"} =>
        LET scanned == IF pc = "scan" THEN i - 1 ELSE Len(args)
        IN  tool_name =
                (IF NameWriters(scanned) = {}
                 THEN <<>>
                 ELSE ExtractedName(
                          args[CHOOSE k \in NameWriters(scanned) :
                                   \A j \in NameWriters(scanned) : j <= k]))

\* `-r=S --viewcode=V`: run_tool won by precedence and was invoked with the
\* name the viewcode flag wrote.
C18_Witness ==
    /\ pc = "done"
    /\ args = <<Prog_whitebox_tools, Tok_r_S, Tok_viewcode_V>>
    /\ Len(OpsInvoked) = 1
    /\ OpsInvoked[1].call = "run_tool"
    /\ OpsInvoked[1].name = <<"V">>

(***************************************************************************)
(* C19                                                                     *)
(***************************************************************************)
\* C19: the ToolManager is built at most once; every operation is invoked
\* after a successful construction; and after a scan it is built only once
\* every token has been scanned, with the final working_dir and with verbose
\* set exactly when some token of the input is "-v" after trimming, wherever
\* that token stands.
C19_BuiltOnceAfterScan ==
    /\ Len(Constructions) <= 1
    /\ \A k \in 1..Len(calls) :
          IsBackendOp(calls[k]) => \E j \in 1..(k - 1) : IsNew(calls[j]) /\ calls[j].ok
    /\ (Len(args) > 1 /\ Constructions # <<>>) =>
          /\ pc \in {"dispatch", "done"}
          /\ i = Len(args) + 1
          /\ Constructions[1].name = working_dir
          /\ Constructions[1].verbose = verbose
          /\ Constructions[1].verbose = (\E k \in 1..Len(args) : trim(args[k]) = <<"-", "v">>)

\* `-r=S "-v "`: the verbose flag came after the run flag and the
\* ToolManager was built verbose before run_tool was invoked.
C19_Witness ==
    /\ pc = "done"
    /\ args = <<Prog_whitebox_tools, Tok_r_S, Tok_v_space>>
    /\ Len(calls) = 2
    /\ calls[1].call = "new" /\ calls[1].verbose
    /\ calls[2].call = "run_tool"

(***************************************************************************)
(* C20                                                                     *)
(***************************************************************************)
\* Token t in lower case with every "--" collapsed to "-".
Collapsed(t) == replace(to_lowercase(t), <<"-", "-">>, <<"-">>)

============================================================================
